---- MODULE Spec2Model ----
(***************************************************************************)
(* The metadata loader (lib/index.js): a webpack loader that parses a      *)
(* source file, visits every ClassDeclaration, finds the first             *)
(* @Metadata(...) decorator, extracts its literal argument, strips the     *)
(* decorator, validates the record and emits <name>.component.json.        *)
(*                                                                         *)
(* JavaScript values are tagged records, so that undefined, null, "" and   *)
(* 0 stay distinct; a JavaScript object is the sequence of its own         *)
(* enumerable entries in property order.  A thrown TypeError is an         *)
(* explicit outcome of every operator that can throw.                      *)
(***************************************************************************)
EXTENDS Integers, Sequences, FiniteSets, TLC

VARIABLES source, ast, pc, idx, emitted, errors, code, run, first,
          node, extracted

vars == <<source, ast, pc, idx, emitted, errors, code, run, first,
          node, extracted>>

-----------------------------------------------------------------------------
(* Bounds of the model.                                                    *)

MaxClasses == 2
MaxDecorators == 2
MaxProps == 2
MaxElems == 2

-----------------------------------------------------------------------------
(* JavaScript values.                                                      *)

Undefined == [t |-> "undefined"]
Null == [t |-> "null"]
Str(s) == [t |-> "str", s |-> s]
Num(n) == [t |-> "num", n |-> n]
Bool(b) == [t |-> "bool", b |-> b]
List(items) == [t |-> "list", items |-> items]
Obj(entries) == [t |-> "obj", entries |-> entries]
Entry(k, v) == [k |-> k, v |-> v]

\* ToBoolean: what `!x` tests.
Truthy(v) ==
  CASE v.t = "str" -> v.s # ""
    [] v.t = "num" -> v.n # 0
    [] v.t = "bool" -> v.b
    [] v.t \in {"null", "undefined"} -> FALSE
    [] OTHER -> TRUE

Keys(o) == [i \in 1..Len(o.entries) |-> o.entries[i].k]
HasKey(o, k) == \E i \in 1..Len(o.entries) : o.entries[i].k = k
KeyIndex(o, k) == CHOOSE i \in 1..Len(o.entries) : o.entries[i].k = k
\* o[k]: the value of an own property, undefined when there is none.
Get(o, k) ==
  IF o.t = "obj" /\ HasKey(o, k) THEN o.entries[KeyIndex(o, k)].v ELSE Undefined

\* Array-index property names ("0", "1", ...): they are enumerated before
\* every other key, in ascending order.
MaxIndex == 8
IndexKey(i) == ToString(i)
IsIndexKey(k) == \E i \in 0..MaxIndex : k = IndexKey(i)
IndexOf(k) == CHOOSE i \in 0..MaxIndex : k = IndexKey(i)

\* The position at which a new key enters the property order.
InsertPos(entries, k) ==
  IF IsIndexKey(k)
  THEN 1 + Cardinality({i \in 1..Len(entries) :
                          IsIndexKey(entries[i].k) /\ IndexOf(entries[i].k) < IndexOf(k)})
  ELSE Len(entries) + 1

\* SetKey with the bug "a key that is already there keeps its first value".
SetKeyFirstWins(o, k, v) ==
  IF HasKey(o, k) THEN o ELSE Obj(Append(o.entries, Entry(k, v)))

\* SetKey with the bug "an overwritten key moves to the end of the order".
SetKeyMoveToEnd(o, k, v) ==
  LET others == SelectSeq(o.entries, LAMBDA e : e.k # k)
      p == InsertPos(others, k)
  IN Obj(SubSeq(others, 1, p - 1) \o <<Entry(k, v)>> \o SubSeq(others, p, Len(others)))

\* o[k] = v: an existing key keeps its place and takes the new value, a
\* new key is added to the property order.
SetKey(o, k, v) ==
  IF HasKey(o, k)
  THEN Obj([o.entries EXCEPT ![KeyIndex(o, k)] = Entry(k, v)])
  ELSE LET p == InsertPos(o.entries, k)
       IN Obj(SubSeq(o.entries, 1, p - 1) \o <<Entry(k, v)>>
              \o SubSeq(o.entries, p, Len(o.entries)))

-----------------------------------------------------------------------------
(* Syntax-tree nodes, as @babel/parser builds them.                        *)

StringLiteral(s) == [type |-> "StringLiteral", value |-> Str(s)]
NumericLiteral(n) == [type |-> "NumericLiteral", value |-> Num(n)]
BooleanLiteral(b) == [type |-> "BooleanLiteral", value |-> Bool(b)]
NullLiteral == [type |-> "NullLiteral"]
TemplateLiteral == [type |-> "TemplateLiteral"]
Identifier(n) == [type |-> "Identifier", name |-> n]
CallExpression(callee, args) ==
  [type |-> "CallExpression", callee |-> callee, arguments |-> args]
MemberExpression == [type |-> "MemberExpression"]
UnaryExpression == [type |-> "UnaryExpression"]
SpreadElement == [type |-> "SpreadElement"]
ObjectProperty(key, value) == [type |-> "ObjectProperty", key |-> key, value |-> value]
ObjectMethod(key) == [type |-> "ObjectMethod", key |-> key]
ObjectExpression(props) == [type |-> "ObjectExpression", properties |-> props]
ArrayExpression(elts) == [type |-> "ArrayExpression", elements |-> elts]
\* An array hole ([1, , 2]): the element is null, not a node.
Hole == [hole |-> TRUE]
Prop(k, value) == ObjectProperty(Identifier(k), value)

\* x.f where the object may lack the field: undefined.
Field(x, f) == IF f \in DOMAIN x THEN x[f] ELSE Undefined

-----------------------------------------------------------------------------
(* extractValue (lib/index.js).                                            *)

Ok(v) == [thrown |-> FALSE, val |-> v]
Thrown == [thrown |-> TRUE, val |-> Undefined]

\* type.endsWith('Literal'), over the node types of the grammar.
EndsWithLiteral(type) ==
  type \in {"StringLiteral", "NumericLiteral", "BooleanLiteral", "NullLiteral",
            "TemplateLiteral", "RegExpLiteral", "BigIntLiteral"}

\* prop.key.name as a property name: a key node without a name (a string or
\* numeric key) gives the name "undefined".
KeyName(key) == IF "name" \in DOMAIN key THEN key.name ELSE "undefined"

RECURSIVE extractValue(_)
RECURSIVE reduceProperties(_, _, _)
RECURSIVE mapElements(_, _, _)

\* node.properties.reduce((obj, prop) => { obj[prop.key.name] = extractValue(prop.value); ... }, {})
reduceProperties(props, i, obj) ==
  IF i > Len(props) THEN Ok(obj)
  ELSE LET prop == props[i] IN
       IF "key" \notin DOMAIN prop THEN Thrown   \* prop.key is undefined: prop.key.name throws
       ELSE IF "value" \notin DOMAIN prop THEN Thrown  \* extractValue(undefined): node.type throws
       ELSE LET r == extractValue(prop.value) IN
            IF r.thrown THEN Thrown
            ELSE reduceProperties(props, i + 1, SetKey(obj, KeyName(prop.key), r.val))

\* node.elements.map(elt => extractValue(elt))
mapElements(elts, i, acc) ==
  IF i > Len(elts) THEN Ok(List(acc))
  ELSE LET r == extractValue(elts[i]) IN
       IF r.thrown THEN Thrown
       ELSE mapElements(elts, i + 1, Append(acc, r.val))

extractValue(n) ==
  IF "type" \notin DOMAIN n THEN Thrown           \* null element: n.type throws
  ELSE IF EndsWithLiteral(n.type) THEN Ok(Field(n, "value"))
  ELSE IF n.type = "ObjectExpression"
       THEN reduceProperties(n.properties, 1, Obj(<<>>))
  ELSE IF n.type = "ArrayExpression"
       THEN mapElements(n.elements, 1, <<>>)
  ELSE Ok(Null)

-----------------------------------------------------------------------------
(* The host (webpack loader context) and the filesystem.                   *)

\* this.context: the directory of the module being loaded.
Context == "/ctx"

\* A path string as its segments; an absolute path starts with "/".
IsAbsolute(p) == p \in {"/ctx", "/abs.png"}
Segments(p) ==
  CASE p = "/ctx" -> <<"ctx">>
    [] p = "./a.png" -> <<".", "a.png">>
    [] p = "./missing.png" -> <<".", "missing.png">>
    [] p = "../out.png" -> <<"..", "out.png">>
    [] p = "/abs.png" -> <<"abs.png">>

\* Normalisation of "." and ".." segments of an absolute path.
RECURSIVE Normalize(_, _)
Normalize(segs, acc) ==
  IF segs = <<>> THEN acc
  ELSE IF Head(segs) = "." THEN Normalize(Tail(segs), acc)
  ELSE IF Head(segs) = ".."
       THEN Normalize(Tail(segs),
                      IF acc = <<>> THEN acc ELSE SubSeq(acc, 1, Len(acc) - 1))
  ELSE Normalize(Tail(segs), Append(acc, Head(segs)))

RECURSIVE JoinPath(_)
JoinPath(segs) ==
  IF segs = <<>> THEN "" ELSE "/" \o Head(segs) \o JoinPath(Tail(segs))

\* path.resolve(from, to) for an absolute `from`: an absolute `to` replaces
\* it, a relative one is appended; the result is normalised.
Resolve(from, to) ==
  LET segs == IF IsAbsolute(to) THEN Segments(to) ELSE Segments(from) \o Segments(to)
      norm == Normalize(segs, <<>>)
  IN IF norm = <<>> THEN "/" ELSE JoinPath(norm)

\* The paths fs.existsSync answers true for, during the run.
ExistingPaths == {"/ctx/a.png", "/out.png", "/abs.png"}
existsSync(p) == p \in ExistingPaths

\* Whether a resolved path lies under a directory.
RECURSIVE IsPrefix(_, _)
IsPrefix(a, b) ==
  a = <<>> \/ (b # <<>> /\ Head(a) = Head(b) /\ IsPrefix(Tail(a), Tail(b)))
UnderContext(to) ==
  LET segs == IF IsAbsolute(to) THEN Segments(to) ELSE Segments(Context) \o Segments(to)
  IN IsPrefix(Segments(Context), Normalize(segs, <<>>))

-----------------------------------------------------------------------------
(* String conversion and JSON.stringify.                                   *)

\* `${v}`: ToString of a value.
RECURSIVE ToStr(_)
RECURSIVE JoinItems(_)
JoinItems(items) ==
  IF items = <<>> THEN ""
  ELSE LET h == IF Head(items).t \in {"null", "undefined"} THEN "" ELSE ToStr(Head(items))
       IN IF Len(items) = 1 THEN h ELSE h \o "," \o JoinItems(Tail(items))
ToStr(v) ==
  CASE v.t = "str" -> v.s
    [] v.t = "num" -> ToString(v.n)
    [] v.t = "bool" -> IF v.b THEN "true" ELSE "false"
    [] v.t = "null" -> "null"
    [] v.t = "undefined" -> "undefined"
    [] v.t = "list" -> JoinItems(v.items)
    [] v.t = "obj" -> "[object Object]"

\* JSON.stringify(v, null, 4), as the JSON value the text denotes: a property
\* whose value is undefined is left out, an undefined array element is null.
RECURSIVE stringify(_)
RECURSIVE stringifyEntries(_)
stringifyEntries(entries) ==
  IF entries = <<>> THEN <<>>
  ELSE IF Head(entries).v.t = "undefined" THEN stringifyEntries(Tail(entries))
  ELSE <<Entry(Head(entries).k, stringify(Head(entries).v))>>
       \o stringifyEntries(Tail(entries))
stringify(v) ==
  CASE v.t = "obj" -> Obj(stringifyEntries(v.entries))
    [] v.t = "list" ->
         List([i \in 1..Len(v.items) |->
                 IF v.items[i].t = "undefined" THEN Null ELSE stringify(v.items[i])])
    [] OTHER -> v

-----------------------------------------------------------------------------
(* getMetadata, the options record and validateOptions (lib/index.js).     *)

Decorator(expr) == [type |-> "Decorator", expression |-> expr]

\* type === 'CallExpression' && callee.name === 'Metadata'
IsMetadataCall(d) ==
  /\ d.expression.type = "CallExpression"
  /\ "name" \in DOMAIN d.expression.callee
  /\ d.expression.callee.name = "Metadata"

\* The positions of the decorators the filter keeps; a decorator node is
\* identified by its position in the class's list.
MatchPositions(decorators) ==
  {i \in 1..Len(decorators) : IsMetadataCall(decorators[i])}

NoMatch == [kind |-> "null"]
MatchThrown == [kind |-> "thrown"]

\* getMetadata with the bug "a Metadata call without an argument is skipped":
\* the first matching decorator that has an argument is picked.
getMetadataSkipEmpty(decorators) ==
  LET m == {i \in MatchPositions(decorators) :
              decorators[i].expression.arguments # <<>>}
  IN
  IF m = {} THEN NoMatch
  ELSE LET at == CHOOSE i \in m : \A j \in m : i <= j
           r == extractValue(decorators[at].expression.arguments[1])
       IN IF r.thrown THEN MatchThrown
          ELSE [kind |-> "match", decorator |-> at, args |-> r.val]

\* getMetadata with the bug "the last matching decorator is picked".
getMetadataLast(decorators) ==
  LET m == MatchPositions(decorators) IN
  IF m = {} THEN NoMatch
  ELSE LET at == CHOOSE i \in m : \A j \in m : i >= j
           arguments == decorators[at].expression.arguments
       IN IF arguments = <<>> THEN NoMatch
          ELSE LET r == extractValue(arguments[1])
               IN IF r.thrown THEN MatchThrown
                  ELSE [kind |-> "match", decorator |-> at, args |-> r.val]

getMetadata(decorators) ==
  LET m == MatchPositions(decorators) IN
  IF m = {} THEN NoMatch
  ELSE LET at == CHOOSE i \in m : \A j \in m : i <= j
           arguments == decorators[at].expression.arguments
       IN IF arguments = <<>> THEN NoMatch
          ELSE LET r == extractValue(arguments[1])
               IN IF r.thrown THEN MatchThrown
                  ELSE [kind |-> "match", decorator |-> at, args |-> r.val]

\* The characters of a string, for the strings that are spread.
Chars(s) ==
  CASE s = "" -> <<>>
    [] s = "ab" -> <<"a", "b">>

\* { ...args } onto o: the own enumerable properties of args, in order.
RECURSIVE assignEntries(_, _)
assignEntries(o, entries) ==
  IF entries = <<>> THEN o
  ELSE assignEntries(SetKey(o, Head(entries).k, Head(entries).v), Tail(entries))

spread(o, args) ==
  CASE args.t = "obj" -> assignEntries(o, args.entries)
    [] args.t = "list" ->
         assignEntries(o, [i \in 1..Len(args.items) |->
                              Entry(IndexKey(i - 1), args.items[i])])
    [] args.t = "str" ->
         assignEntries(o, [i \in 1..Len(Chars(args.s)) |->
                              Entry(IndexKey(i - 1), Str(Chars(args.s)[i]))])
    [] OTHER -> o

\* makeOptions with the bug "name is written after the spread":
\* { ...args, name, env: { context: loader.context } }
makeOptionsNameLast(name, args) ==
  SetKey(SetKey(spread(Obj(<<>>), args), "name", Str(name)),
         "env", Obj(<<Entry("context", Str(Context))>>))

\* { name, ...args, env: { context: loader.context } }
makeOptions(name, args) ==
  SetKey(spread(Obj(<<Entry("name", Str(name))>>), args),
         "env", Obj(<<Entry("context", Str(Context))>>))

NameError(name) == "name must be specified for " \o name
ThumbnailError(name) == "thumbnail must be specified for " \o name
MissingError(filePath, name) ==
  "Missing thumbnail (" \o filePath \o ") for " \o name \o ", does not exist."

\* The outcome of validateOptions: true, false with the message handed to
\* loader.emitError, or a TypeError thrown by path.resolve.
Valid == [ret |-> "true", error |-> ""]
Invalid(msg) == [ret |-> "false", error |-> msg]
ValidateThrown == [ret |-> "thrown", error |-> ""]

\* validateOptions with the bug "the thumbnail is checked before the name".
validateThumbnailFirst(options, name) ==
  IF ~Truthy(Get(options, "thumbnail")) THEN Invalid(ThumbnailError(name))
  ELSE IF ~Truthy(Get(options, "name")) THEN Invalid(NameError(name))
  ELSE IF Get(options, "thumbnail").t # "str" THEN ValidateThrown
  ELSE LET filePath == Resolve(Get(Get(options, "env"), "context").s,
                               Get(options, "thumbnail").s)
       IN IF ~existsSync(filePath) THEN Invalid(MissingError(filePath, name))
          ELSE Valid

\* validateOptions with the bug "the existence check is left out".
validateWithoutExists(options, name) ==
  IF ~Truthy(Get(options, "name")) THEN Invalid(NameError(name))
  ELSE IF ~Truthy(Get(options, "thumbnail")) THEN Invalid(ThumbnailError(name))
  ELSE IF Get(options, "thumbnail").t # "str" THEN ValidateThrown
  ELSE Valid

validateOptions(options, name) ==
  IF ~Truthy(Get(options, "name")) THEN Invalid(NameError(name))
  ELSE IF ~Truthy(Get(options, "thumbnail")) THEN Invalid(ThumbnailError(name))
  ELSE IF Get(options, "thumbnail").t # "str" THEN ValidateThrown
  ELSE LET filePath == Resolve(Get(Get(options, "env"), "context").s,
                               Get(options, "thumbnail").s)
       IN IF ~existsSync(filePath) THEN Invalid(MissingError(filePath, name))
          ELSE Valid

\* `${options.name}.component.json`
ArtifactName(options) == ToStr(Get(options, "name")) \o ".component.json"

-----------------------------------------------------------------------------
(* Source text, parser and generator.  A source text is the sequence of    *)
(* its class declarations as written: the class identifier (none for       *)
(* `export default class {}`) and the decorators in source order.          *)

NullId == [null |-> TRUE]
ClassText(id, decorators) == [id |-> id, decorators |-> decorators]

\* parser.parse: a class without decorators has no `decorators` attribute.
ParseClass(c) ==
  IF c.decorators = <<>>
  THEN [type |-> "ClassDeclaration", id |-> c.id]
  ELSE [type |-> "ClassDeclaration", id |-> c.id, decorators |-> c.decorators]
Parse(text) == [i \in 1..Len(text) |-> ParseClass(text[i])]

\* generator(ast).code: a class prints the decorators its node carries.
GenerateClass(n) ==
  ClassText(n.id, IF "decorators" \in DOMAIN n THEN n.decorators ELSE <<>>)
Generate(tree) == [i \in 1..Len(tree) |-> GenerateClass(tree[i])]

\* FilterOut with the bug "decorators are compared by structure, not by
\* identity": every decorator written like the matched one is removed.
FilterOutEqual(decorators, at) ==
  SelectSeq(decorators, LAMBDA x : x # decorators[at])

\* node.decorators = node.decorators.filter(x => x !== decorator), and the
\* attribute deleted when nothing is left.
FilterOut(decorators, at) ==
  LET keep == {i \in 1..Len(decorators) : i # at}
      pos(j) == CHOOSE i \in keep : Cardinality({h \in keep : h < i}) = j - 1
  IN [j \in 1..Cardinality(keep) |-> decorators[pos(j)]]

\* StripDecorator with the bug "the matched decorator is left in place".
StripNothing(n, at) == n

StripDecorator(n, at) ==
  LET rest == FilterOut(n.decorators, at)
  IN IF Len(rest) = 0
     THEN [type |-> n.type, id |-> n.id]
     ELSE [n EXCEPT !.decorators = rest]

-----------------------------------------------------------------------------
(* The inputs of the model.                                                *)

ClassName(i) == "C" \o ToString(i)

OkArg == ObjectExpression(<<Prop("thumbnail", StringLiteral("./a.png"))>>)
NoThumbnailArg == ObjectExpression(<<Prop("description", StringLiteral("d"))>>)
NumberThumbnailArg == ObjectExpression(<<Prop("thumbnail", NumericLiteral(5))>>)
SpreadArg == ObjectExpression(<<SpreadElement>>)

Metadata(args) == Decorator(CallExpression(Identifier("Metadata"), args))

\* The decorators of the files with several classes or several decorators:
\* a bare @Metadata, @Other({...}), @lib.Metadata({...}), @Metadata() and
\* @Metadata(arg).
CoreArgs == {OkArg, NoThumbnailArg, NumberThumbnailArg, SpreadArg}
CoreDecorators ==
  {Decorator(Identifier("Metadata")),
   Decorator(CallExpression(Identifier("Other"), <<OkArg>>)),
   Decorator(CallExpression(MemberExpression, <<OkArg>>)),
   Metadata(<<>>)}
  \cup {Metadata(<<a>>) : a \in CoreArgs}

SeqsUpTo(S, n) == UNION {[1..k -> S] : k \in 0..n}

\* Class i of a file; `anon` is the position of the anonymous default export.
ClassId(i, anon) == IF i = anon THEN NullId ELSE Identifier(ClassName(i))

\* The elements of a sequence at the positions of a set, in order.
Pick(seq, keep) ==
  LET pos(j) == CHOOSE i \in keep : Cardinality({h \in keep : h < i}) = j - 1
  IN [j \in 1..Cardinality(keep) |-> seq[pos(j)]]

\* A file of n classes over the decorators `flat`, written in source order;
\* owner[k] is the class decorator k is attached to.
CoreSource(n, anon, flat, owner) ==
  [i \in 1..n |->
     ClassText(ClassId(i, anon), Pick(flat, {k \in 1..Len(flat) : owner[k] = i}))]

\* The arguments of the files with one class and one decorator.
NameValues ==
  {StringLiteral("Sample"), StringLiteral(""), NumericLiteral(5), NullLiteral}
ThumbnailValues ==
  {StringLiteral("./a.png"), StringLiteral("./missing.png"),
   StringLiteral("../out.png"), StringLiteral("/abs.png"), StringLiteral(""),
   NumericLiteral(5), NumericLiteral(0), BooleanLiteral(TRUE),
   NullLiteral, Identifier("x"), ArrayExpression(<<>>), ObjectExpression(<<>>)}
RichProps ==
  {Prop("name", v) : v \in NameValues}
  \cup {Prop("thumbnail", v) : v \in ThumbnailValues}
  \cup {Prop("env", StringLiteral("x")), Prop("description", StringLiteral("d")),
        Prop("description", TemplateLiteral),
        ObjectProperty(StringLiteral("thumbnail"), StringLiteral("./a.png")),
        SpreadElement}
OtherArgs ==
  {StringLiteral("ab"), NumericLiteral(5), NullLiteral, Identifier("x"),
   ArrayExpression(<<StringLiteral("./a.png"), NullLiteral>>)}
RichSource(arg) == <<ClassText(Identifier(ClassName(1)), <<Metadata(<<arg>>)>>)>>

-----------------------------------------------------------------------------
(* The loader: one invocation per source text, and a second invocation on  *)
(* the text the first one returned.                                        *)

NoTree == <<>>
NoCode == [none |-> TRUE]
NoRun == [none |-> TRUE]
Pending == [pending |-> TRUE]

Init ==
  /\ \/ \E n \in 1..MaxClasses, anon \in 0..MaxClasses :
          \E flat \in SeqsUpTo(CoreDecorators, MaxDecorators) :
             \E owner \in [1..Len(flat) -> 1..n] :
                /\ anon <= n
                /\ \A k \in 1..Len(flat) - 1 : owner[k] <= owner[k + 1]
                /\ source = CoreSource(n, anon, flat, owner)
     \/ \E ps \in SeqsUpTo(RichProps, MaxProps) :
          source = RichSource(ObjectExpression(ps))
     \/ \E arg \in OtherArgs : source = RichSource(arg)
  /\ ast = NoTree
  /\ pc = "parse"
  /\ idx = 0
  /\ emitted = <<>>
  /\ errors = <<>>
  /\ code = NoCode
  /\ run = 1
  /\ first = NoRun
  /\ node = Hole
  /\ extracted = Pending

\* const ast = parser.parse(source, ...); traverse(ast, ...) starts.
ParseSource ==
  /\ pc = "parse"
  /\ ast' = Parse(source)
  /\ idx' = 1
  /\ pc' = "traverse"
  /\ UNCHANGED <<source, emitted, errors, code, run, first, node, extracted>>

\* What one call of the ClassDeclaration visitor does to the tree and the
\* loader, for the class at position i.
VisitOutcome(tree, i) ==
  LET n == tree[i]
      unchanged == [thrown |-> FALSE, tree |-> tree, files |-> <<>>, errs |-> <<>>]
  IN
  IF "name" \notin DOMAIN n.id
  THEN [unchanged EXCEPT !.thrown = TRUE]                 \* node.id.name on a null id
  ELSE
  LET name == n.id.name
      result == getMetadata(IF "decorators" \in DOMAIN n THEN n.decorators ELSE <<>>)
  IN
  IF result.kind = "thrown" THEN [unchanged EXCEPT !.thrown = TRUE]
  ELSE IF result.kind = "null" THEN unchanged
  ELSE
  LET stripped == [tree EXCEPT ![i] = StripDecorator(n, result.decorator)]
      options == makeOptions(name, result.args)
      v == validateOptions(options, name)
  IN
  IF v.ret = "thrown"
  THEN [thrown |-> TRUE, tree |-> stripped, files |-> <<>>, errs |-> <<>>]
  ELSE IF v.ret = "false"
  THEN [thrown |-> FALSE, tree |-> stripped, files |-> <<>>,
        errs |-> <<[message |-> v.error, by |-> i]>>]
  ELSE [thrown |-> FALSE, tree |-> stripped,
        files |-> <<[name |-> ArtifactName(options), content |-> stringify(options),
                     by |-> i]>>,
        errs |-> <<>>]

\* traverse calls the visitor on the next ClassDeclaration; a TypeError
\* thrown inside it ends the invocation.
VisitClass ==
  /\ pc = "traverse"
  /\ idx <= Len(ast)
  /\ LET o == VisitOutcome(ast, idx) IN
       /\ ast' = o.tree
       /\ emitted' = emitted \o o.files
       /\ errors' = errors \o o.errs
       /\ IF o.thrown
          THEN pc' = "thrown" /\ idx' = idx
          ELSE pc' = "traverse" /\ idx' = idx + 1
  /\ UNCHANGED <<source, code, run, first, node, extracted>>

\* const { code } = generator(ast); return code;
GenerateCode ==
  /\ pc = "traverse"
  /\ idx > Len(ast)
  /\ code' = Generate(ast)
  /\ pc' = "done"
  /\ UNCHANGED <<source, ast, idx, emitted, errors, run, first, node, extracted>>

\* The host runs the loader again, on the text it returned.
Rerun ==
  /\ pc = "done"
  /\ run = 1
  /\ first' = [source |-> source, code |-> code, emitted |-> emitted, errors |-> errors]
  /\ source' = code
  /\ ast' = NoTree
  /\ idx' = 0
  /\ emitted' = <<>>
  /\ errors' = <<>>
  /\ code' = NoCode
  /\ run' = 2
  /\ pc' = "parse"
  /\ UNCHANGED <<node, extracted>>

Next == ParseSource \/ VisitClass \/ GenerateCode \/ Rerun

Spec == Init /\ [][Next]_vars

-----------------------------------------------------------------------------
(* extractValue on its own: the argument nodes it is applied to.           *)

Leaves ==
  {StringLiteral("a"), NumericLiteral(1), BooleanLiteral(TRUE), NullLiteral,
   TemplateLiteral, Identifier("x"), CallExpression(Identifier("f"), <<>>),
   UnaryExpression}
LeafElements == Leaves \cup {SpreadElement, Hole}
LeafProps ==
  {Prop(k, v) : k \in {"a", "b"}, v \in Leaves}
  \cup {SpreadElement, ObjectMethod(Identifier("a")),
        ObjectProperty(StringLiteral("a"), StringLiteral("a"))}
Nested ==
  {ArrayExpression(<<e>>) : e \in {StringLiteral("a"), Identifier("x"), Hole, SpreadElement}}
  \cup {ObjectExpression(<<q>>) :
          q \in {Prop("a", StringLiteral("a")), Prop("b", Identifier("x")),
                 SpreadElement, ObjectMethod(Identifier("a"))}}
  \cup {ObjectExpression(<<Prop("a", StringLiteral("a")), Prop("a", NumericLiteral(1))>>),
        ArrayExpression(<<StringLiteral("a"), NumericLiteral(1)>>)}
NestedProps == {Prop(k, v) : k \in {"a", "b"}, v \in Nested}

InitExtract ==
  /\ \/ node \in Leaves
     \/ \E es \in SeqsUpTo(LeafElements, MaxElems) : node = ArrayExpression(es)
     \/ \E ps \in SeqsUpTo(LeafProps, MaxProps) : node = ObjectExpression(ps)
     \/ \E es \in SeqsUpTo(Nested, MaxElems) : node = ArrayExpression(es)
     \/ \E ps \in SeqsUpTo(NestedProps, MaxProps) : node = ObjectExpression(ps)
  /\ extracted = Pending
  /\ source = <<>>
  /\ ast = NoTree
  /\ pc = "idle"
  /\ idx = 0
  /\ emitted = <<>>
  /\ errors = <<>>
  /\ code = NoCode
  /\ run = 1
  /\ first = NoRun

\* args: extractValue(options)
Extract ==
  /\ pc = "idle"
  /\ extracted = Pending
  /\ extracted' = extractValue(node)
  /\ UNCHANGED <<node, source, ast, pc, idx, emitted, errors, code, run, first>>

NextExtract == Extract

SpecExtract == InitExtract /\ [][NextExtract]_vars

-----------------------------------------------------------------------------
(* Properties of extractValue.                                             *)

PropKeys(props) == [i \in 1..Len(props) |-> KeyName(props[i].key)]
\* The positions of the first and of the last occurrence of each key.
FirstOccurrences(keys) ==
  {i \in 1..Len(keys) : \A j \in 1..(i - 1) : keys[j] # keys[i]}
LastOccurrences(keys) ==
  {i \in 1..Len(keys) : \A j \in (i + 1)..Len(keys) : keys[j] # keys[i]}

\* Built only from string/number/boolean literals, array literals and
\* object literals with plain name keys.
RECURSIVE IsPlain(_)
IsPlain(n) ==
  /\ "type" \in DOMAIN n
  /\ \/ n.type \in {"StringLiteral", "NumericLiteral", "BooleanLiteral"}
     \/ /\ n.type = "ArrayExpression"
        /\ \A i \in 1..Len(n.elements) : IsPlain(n.elements[i])
     \/ /\ n.type = "ObjectExpression"
        /\ \A i \in 1..Len(n.properties) :
             /\ n.properties[i].type = "ObjectProperty"
             /\ n.properties[i].key.type = "Identifier"
             /\ IsPlain(n.properties[i].value)

\* v is the value the plain literal n denotes.
RECURSIVE Denotes(_, _)
Denotes(n, v) ==
  CASE n.type = "ArrayExpression" ->
         /\ v.t = "list"
         /\ Len(v.items) = Len(n.elements)
         /\ \A i \in 1..Len(n.elements) : Denotes(n.elements[i], v.items[i])
    [] n.type = "ObjectExpression" ->
         LET keys == PropKeys(n.properties) IN
         /\ v.t = "obj"
         /\ Keys(v) = Pick(keys, FirstOccurrences(keys))
         /\ \A i \in LastOccurrences(keys) :
              Denotes(n.properties[i].value, Get(v, keys[i]))
    [] OTHER -> v = n.value

\* C10: for an argument built only from string/number/boolean literals,
\* array literals and object literals with plain name keys, extractValue
\* completes and returns the value the literal denotes: a list of the same
\* length with the elements in source order, a mapping whose keys are in
\* source order, the last occurrence of a repeated key giving its value.
C10_ExtractDenotes ==
  (extracted # Pending /\ IsPlain(node))
    => (~extracted.thrown /\ Denotes(node, extracted.val))

\* A repeated key and a nested list of mappings have been extracted.
C10_Witness ==
  /\ extracted # Pending
  /\ node = ObjectExpression(<<Prop("a", StringLiteral("a")), Prop("a", NumericLiteral(1))>>)
  /\ extracted = Ok(Obj(<<Entry("a", Num(1))>>))

\* What C5 asks of the value extracted from n: null for every node outside
\* the literal grammar, at every depth.
RECURSIVE NullSubstituted(_, _)
NullSubstituted(n, v) ==
  IF "type" \notin DOMAIN n THEN TRUE
  ELSE CASE n.type \in {"StringLiteral", "NumericLiteral", "BooleanLiteral"} -> v = n.value
         [] n.type = "NullLiteral" -> TRUE
         [] n.type = "ArrayExpression" ->
              /\ v.t = "list"
              /\ Len(v.items) = Len(n.elements)
              /\ \A i \in 1..Len(n.elements) : NullSubstituted(n.elements[i], v.items[i])
         [] n.type = "ObjectExpression" ->
              /\ v.t = "obj"
              /\ \A i \in 1..Len(n.properties) :
                   LET q == n.properties[i] IN
                   (/\ q.type = "ObjectProperty"
                    /\ \A j \in (i + 1)..Len(n.properties) :
                         "key" \in DOMAIN n.properties[j]
                           => KeyName(n.properties[j].key) # KeyName(q.key))
                     => NullSubstituted(q.value, Get(v, KeyName(q.key)))
         [] OTHER -> v = Null

\* C5: extractValue never raises, and every node outside the literal
\* grammar (identifier, call, computed expression, spread, template string)
\* contributes null, at every depth.
C5_NeverRaisesNullForOther ==
  extracted # Pending
    => (~extracted.thrown /\ NullSubstituted(node, extracted.val))

-----------------------------------------------------------------------------
(* Properties of the loader.  A class is named by its position i in the    *)
(* source text the invocation was given.                                   *)

HasId(c) == "name" \in DOMAIN c.id
FirstMetadata(c) ==
  CHOOSE i \in MatchPositions(c.decorators) : \A j \in MatchPositions(c.decorators) : i <= j
\* The locator finds a match: the first Metadata call has an argument.
HasMatch(c) ==
  /\ MatchPositions(c.decorators) # {}
  /\ c.decorators[FirstMetadata(c)].expression.arguments # <<>>
MatchedArg(c) == c.decorators[FirstMetadata(c)].expression.arguments[1]

\* Extraction of n cannot fault: no array hole, and every property of every
\* object literal is a `key: value` pair.
RECURSIVE Extractable(_)
Extractable(n) ==
  /\ "type" \in DOMAIN n
  /\ n.type = "ArrayExpression"
       => \A i \in 1..Len(n.elements) : Extractable(n.elements[i])
  /\ n.type = "ObjectExpression"
       => \A i \in 1..Len(n.properties) :
            /\ n.properties[i].type = "ObjectProperty"
            /\ Extractable(n.properties[i].value)

\* An object literal of `identifier: value` properties whose extraction
\* cannot fault.
RecordLiteral(n) ==
  /\ n.type = "ObjectExpression"
  /\ Extractable(n)
  /\ \A i \in 1..Len(n.properties) : n.properties[i].key.type = "Identifier"

\* The fields of an object literal, by identifier key; the last occurrence
\* of a key is the field.
IsField(q, k) ==
  q.type = "ObjectProperty" /\ q.key.type = "Identifier" /\ q.key.name = k
HasField(n, k) == \E i \in 1..Len(n.properties) : IsField(n.properties[i], k)
FieldNode(n, k) ==
  LET at == CHOOSE i \in 1..Len(n.properties) :
              /\ IsField(n.properties[i], k)
              /\ \A j \in (i + 1)..Len(n.properties) : ~IsField(n.properties[j], k)
  IN n.properties[at].value

\* The literal's thumbnail is a string naming an existing path.
ThumbnailResolves(n) ==
  /\ HasField(n, "thumbnail")
  /\ FieldNode(n, "thumbnail").type = "StringLiteral"
  /\ FieldNode(n, "thumbnail").value.s # ""
  /\ existsSync(Resolve(Context, FieldNode(n, "thumbnail").value.s))

\* The traversal has called the visitor on class i / the call has returned.
Reached(i) == pc \in {"traverse", "done", "thrown"} /\ idx >= i
Visited(i) == pc \in {"traverse", "done", "thrown"} /\ idx > i
FaultedAt(i) == pc = "thrown" /\ idx = i

ByClass(log, i) == SelectSeq(log, LAMBDA e : e.by = i)
CurrentDecorators(i) ==
  IF "decorators" \in DOMAIN ast[i] THEN ast[i].decorators ELSE <<>>

\* C1 as stated: a class with exactly one Metadata({...}) annotation whose
\* thumbnail resolves to an existing file under the context directory gets
\* exactly one artifact, named <class identifier>.component.json, whose
\* `name` is the class identifier, and loses the annotation.
C1Case(c) ==
  /\ HasId(c)
  /\ Cardinality(MatchPositions(c.decorators)) = 1
  /\ HasMatch(c)
  /\ MatchedArg(c).type = "ObjectExpression"
  /\ ThumbnailResolves(MatchedArg(c))
  /\ UnderContext(FieldNode(MatchedArg(c), "thumbnail").value.s)

C1_AsStated ==
  \A i \in 1..Len(source) :
    (Visited(i) /\ C1Case(source[i]))
      => /\ Len(ByClass(emitted, i)) = 1
         /\ ByClass(emitted, i)[1].name = source[i].id.name \o ".component.json"
         /\ Get(ByClass(emitted, i)[1].content, "name") = Str(source[i].id.name)
         /\ MatchPositions(CurrentDecorators(i)) = {}

\* The value the record's `name` takes: the literal's `name` field when it
\* has one, the class identifier otherwise.
EffectiveName(c) ==
  IF HasField(MatchedArg(c), "name")
  THEN extractValue(FieldNode(MatchedArg(c), "name")).val
  ELSE Str(c.id.name)

\* C1 (amended): for every class the traversal reaches that carries exactly
\* one Metadata({...}) annotation, an object literal of identifier: value
\* properties whose thumbnail resolves to an existing file under the context
\* directory, the visit returns and the annotation is removed; the record's
\* name is the literal's `name` field when it defines one and the class
\* identifier otherwise; when that name is truthy exactly one artifact
\* <name>.component.json is emitted and its `name` field is that name, and
\* when it is falsy no artifact is emitted and the one diagnostic is "name
\* must be specified for <class>".
C1_NameFromLiteralOrClass ==
  \A i \in 1..Len(source) :
    (Reached(i) /\ C1Case(source[i]) /\ RecordLiteral(MatchedArg(source[i])))
      => /\ ~FaultedAt(i)
         /\ Visited(i) =>
              LET nm == EffectiveName(source[i])
                  files == ByClass(emitted, i)
                  errs == ByClass(errors, i)
              IN /\ MatchPositions(CurrentDecorators(i)) = {}
                 /\ IF Truthy(nm)
                    THEN /\ Len(files) = 1
                         /\ files[1].name = ToStr(nm) \o ".component.json"
                         /\ Get(files[1].content, "name") = stringify(nm)
                         /\ errs = <<>>
                    ELSE /\ files = <<>>
                         /\ Len(errs) = 1
                         /\ errs[1].message = NameError(source[i].id.name)

\* A class whose literal names itself 'Sample' has been emitted under that name.
C1_Witness ==
  \E i \in 1..Len(source) :
    /\ Visited(i) /\ C1Case(source[i]) /\ RecordLiteral(MatchedArg(source[i]))
    /\ HasField(MatchedArg(source[i]), "name")
    /\ Len(ByClass(emitted, i)) = 1
    /\ ByClass(emitted, i)[1].name = "Sample.component.json"

\* No class carries more than one annotation that is a call to Metadata.
AtMostOneMetadata(text) ==
  \A i \in 1..Len(text) : Cardinality(MatchPositions(text[i].decorators)) <= 1

\* C2 as stated: the second run, on the text the first one returned,
\* returns that text and calls neither emitFile nor emitError.
C2_AsStated ==
  (run = 2 /\ pc = "done") => (code = source /\ emitted = <<>> /\ errors = <<>>)

\* C2 (amended): for every source text on which transform completes and in
\* which no class carries more than one annotation that is a call to
\* Metadata, the second run completes, returns the text it was given and
\* calls neither emitFile nor emitError.
C2_IdempotentOnSingleMetadata ==
  (run = 2 /\ AtMostOneMetadata(first.source))
    => /\ pc # "thrown"
       /\ source = first.code
       /\ emitted = <<>>
       /\ errors = <<>>
       /\ pc = "done" => code = source

\* A first run that stripped an annotation and emitted, then a silent second run.
C2_Witness ==
  /\ run = 2 /\ pc = "done"
  /\ AtMostOneMetadata(first.source)
  /\ first.emitted # <<>>
  /\ first.code # first.source
  /\ code = source

\* C3 as stated: with two or more Metadata calls on a class, the first is
\* removed and its argument is the one emitted; at most one artifact; the
\* later ones stay attached.
C3Case(c) == HasId(c) /\ Cardinality(MatchPositions(c.decorators)) >= 2
AllBut(decorators, at) == Pick(decorators, (1..Len(decorators)) \ {at})

C3_AsStated ==
  \A i \in 1..Len(source) :
    (Visited(i) /\ C3Case(source[i]))
      => /\ CurrentDecorators(i) = AllBut(source[i].decorators, FirstMetadata(source[i]))
         /\ Len(ByClass(emitted, i)) <= 1

\* C3 (amended): for every class carrying two or more annotations that are
\* calls to Metadata, only the first can be honored: at most one artifact
\* and at most one diagnostic come from the class, an emitted artifact holds
\* the data extracted from the first one's argument, and every other
\* annotation stays attached in its place; once the visit has returned, the
\* first one is removed exactly when it has an argument (with an empty
\* argument list nothing is removed and nothing emitted).
C3_OnlyFirstHonored ==
  \A i \in 1..Len(source) :
    (Reached(i) /\ C3Case(source[i]))
      => LET c == source[i]
             f == FirstMetadata(c)
             files == ByClass(emitted, i)
         IN /\ CurrentDecorators(i) \in {c.decorators, AllBut(c.decorators, f)}
            /\ Len(files) <= 1
            /\ Len(ByClass(errors, i)) <= 1
            /\ \A k \in 1..Len(files) :
                 /\ HasMatch(c)
                 /\ files[k].content
                      = stringify(makeOptions(c.id.name, extractValue(MatchedArg(c)).val))
            /\ Visited(i) =>
                 CurrentDecorators(i)
                   = IF HasMatch(c) THEN AllBut(c.decorators, f) ELSE c.decorators
            /\ (~HasMatch(c)) => (files = <<>> /\ ByClass(errors, i) = <<>> /\ ~FaultedAt(i))

\* Two Metadata calls with arguments: the first emitted and removed, the
\* second still attached.
C3_Witness ==
  \E i \in 1..Len(source) :
    /\ Visited(i) /\ C3Case(source[i]) /\ HasMatch(source[i])
    /\ Len(ByClass(emitted, i)) = 1
    /\ CurrentDecorators(i) = <<source[i].decorators[2]>>
    /\ source[i].decorators[2].expression.arguments # <<>>
    /\ source[i].decorators[1] # source[i].decorators[2]

\* C4: for every class with a matched Metadata annotation and every value
\* its argument extracts to, validation ends in acceptance or in exactly one
\* emitError call and never in a thrown fault, so the traversal goes on to
\* the remaining classes.
C4Case(c) ==
  HasId(c) /\ HasMatch(c) /\ ~extractValue(MatchedArg(c)).thrown

C4_ValidationNeverFatal ==
  \A i \in 1..Len(source) :
    (Reached(i) /\ C4Case(source[i]))
      => /\ ~FaultedAt(i)
         /\ Visited(i) =>
              Len(ByClass(emitted, i)) + Len(ByClass(errors, i)) = 1

\* C6: a source file in which no class carries an annotation that is a call
\* to Metadata, whatever form its class definitions take: transform
\* completes, returns the input unchanged and calls neither emitFile nor
\* emitError.
NoMetadata(text) ==
  \A i \in 1..Len(text) : MatchPositions(text[i].decorators) = {}

C6_NoAnnotationNoChange ==
  NoMetadata(source)
    => /\ pc # "thrown"
       /\ emitted = <<>>
       /\ errors = <<>>
       /\ pc = "done" => code = source

\* C7 as stated: a matched object literal without a `thumbnail` field gives
\* no artifact, exactly one diagnostic, the missing-thumbnail one, and the
\* annotation is removed.
C7Case(c) ==
  /\ HasId(c)
  /\ HasMatch(c)
  /\ MatchedArg(c).type = "ObjectExpression"
  /\ ~HasField(MatchedArg(c), "thumbnail")

C7_AsStated ==
  \A i \in 1..Len(source) :
    (Visited(i) /\ C7Case(source[i]))
      => /\ ByClass(emitted, i) = <<>>
         /\ Len(ByClass(errors, i)) = 1
         /\ ByClass(errors, i)[1].message = ThumbnailError(source[i].id.name)
         /\ CurrentDecorators(i)
              = AllBut(source[i].decorators, FirstMetadata(source[i]))

\* C7 (amended): for every class the traversal reaches whose matched
\* Metadata annotation is an object literal of identifier: value properties
\* with no `thumbnail` field, the visit returns, no artifact is emitted, the
\* annotation is removed and exactly one diagnostic is reported: "thumbnail
\* must be specified for <class>" when the record's name (the literal's
\* `name` field if it defines one, else the class identifier) is truthy, and
\* "name must be specified for <class>" when it is falsy -- the name rule is
\* checked before the thumbnail rules and only the first failing rule is
\* reported.
C7_MissingThumbnailAfterName ==
  \A i \in 1..Len(source) :
    (Reached(i) /\ C7Case(source[i]) /\ RecordLiteral(MatchedArg(source[i])))
      => /\ ~FaultedAt(i)
         /\ Visited(i) =>
              /\ ByClass(emitted, i) = <<>>
              /\ Len(ByClass(errors, i)) = 1
              /\ ByClass(errors, i)[1].message
                   = IF Truthy(EffectiveName(source[i]))
                     THEN ThumbnailError(source[i].id.name)
                     ELSE NameError(source[i].id.name)
              /\ CurrentDecorators(i)
                   = AllBut(source[i].decorators, FirstMetadata(source[i]))

\* A literal with a falsy name and no thumbnail has been reported for its name.
C7_Witness ==
  \E i \in 1..Len(source) :
    /\ Visited(i) /\ C7Case(source[i]) /\ RecordLiteral(MatchedArg(source[i]))
    /\ HasField(MatchedArg(source[i]), "name")
    /\ ByClass(errors, i) = <<[message |-> NameError(source[i].id.name), by |-> i]>>
    /\ ~("decorators" \in DOMAIN ast[i])

\* C8 as stated: an artifact is emitted only if the record's thumbnail is a
\* non-empty string and the resolved path exists and lies under the context
\* directory.
ThumbnailExists(e) ==
  LET th == Get(e.content, "thumbnail")
  IN /\ th.t = "str"
     /\ th.s # ""
     /\ existsSync(Resolve(Context, th.s))

C8_AsStated ==
  \A k \in 1..Len(emitted) :
    /\ ThumbnailExists(emitted[k])
    /\ UnderContext(Get(emitted[k].content, "thumbnail").s)

\* C8 (amended): an artifact is emitted for a class only if the record's
\* thumbnail is a non-empty string and the path obtained by resolving it
\* against the context directory exists at validation time; the path need
\* not lie under the context directory ('../x' leaves it, an absolute path
\* replaces it).  In every other case no emitFile call is made for the class.
C8_EmittedOnlyIfThumbnailExists ==
  \A k \in 1..Len(emitted) : ThumbnailExists(emitted[k])

\* An artifact whose thumbnail lies outside the context directory.
C8_Witness ==
  \E k \in 1..Len(emitted) :
    /\ ThumbnailExists(emitted[k])
    /\ ~UnderContext(Get(emitted[k].content, "thumbnail").s)

C9Case(c) == HasId(c) /\ HasMatch(c) /\ MatchedArg(c).type = "ObjectExpression"
EnvRecord == Obj(<<Entry("context", Str(Context))>>)
\* The value extracted for key k of the literal (its last occurrence).
FinalValue(n, k) ==
  LET keys == PropKeys(n.properties)
      at == CHOOSE i \in LastOccurrences(keys) : keys[i] = k
  IN extractValue(n.properties[at].value).val

\* The literal's keys other than name and env that the artifact can show:
\* those whose value did not extract to undefined.
LiteralKeys(n) ==
  LET keys == PropKeys(n.properties)
  IN Pick(keys, {i \in FirstOccurrences(keys) :
                   keys[i] \notin {"name", "env"} /\ FinalValue(n, keys[i]) # Undefined})

\* C9 as stated: in every artifact `name` is the first field, the fields of
\* the object literal follow in source order, and `env`, holding exactly
\* {context}, is the last field.
C9_AsStated ==
  \A k \in 1..Len(emitted) :
    C9Case(source[emitted[k].by])
      => LET ks == Keys(emitted[k].content)
         IN /\ ks = <<"name">> \o LiteralKeys(MatchedArg(source[emitted[k].by])) \o <<"env">>
            /\ Get(emitted[k].content, "env") = EnvRecord

\* name, the literal's keys and env, each at its first occurrence, without
\* the literal's keys whose value is undefined.
ExpectedKeys(n) ==
  LET all == <<"name">> \o PropKeys(n.properties) \o <<"env">>
  IN Pick(all, {i \in FirstOccurrences(all) :
                  all[i] \in {"name", "env"} \/ FinalValue(n, all[i]) # Undefined})

\* C9 (amended): in every artifact made from an object literal of
\* identifier: value properties, `name` is the first field; the literal's other keys follow in the order of their
\* first occurrence, without those whose value extracted to undefined (a
\* null, template or regex literal), which JSON.stringify leaves out; `env`
\* holds exactly {context: the base directory}, and is the last field unless
\* the literal itself defines an `env` key, in which case it stays at the
\* place of that key among the literal's keys.
C9_FieldOrder ==
  \A k \in 1..Len(emitted) :
    (C9Case(source[emitted[k].by]) /\ RecordLiteral(MatchedArg(source[emitted[k].by])))
      => /\ Keys(emitted[k].content) = ExpectedKeys(MatchedArg(source[emitted[k].by]))
         /\ Keys(emitted[k].content)[1] = "name"
         /\ Get(emitted[k].content, "env") = EnvRecord

\* An artifact whose literal defined `env` before `thumbnail`: env is not last.
C9_Witness ==
  \E k \in 1..Len(emitted) :
    /\ C9Case(source[emitted[k].by])
    /\ RecordLiteral(MatchedArg(source[emitted[k].by]))
    /\ Keys(emitted[k].content) = <<"name", "env", "thumbnail">>
    /\ Get(emitted[k].content, "env") = EnvRecord

\* The locator returns a match for the class: its first Metadata call has an
\* argument and the extraction of that argument returns.
C11Case(c) ==
  HasId(c) /\ HasMatch(c) /\ ~extractValue(MatchedArg(c)).thrown

\* C11: whenever the locator returns a match for a class, then once the
\* visitor has processed the class -- validation having accepted the record,
\* rejected it or faulted -- the class's annotation list is the original
\* list without the matched instance, every other annotation (one written
\* exactly like the matched one included) kept in its original order, and
\* when no annotation is left the node has no annotations attribute at all.
C11_StripOnMatch ==
  \A i \in 1..Len(source) :
    (C11Case(source[i]) /\ (Visited(i) \/ FaultedAt(i)))
      => LET rest == AllBut(source[i].decorators, FirstMetadata(source[i]))
         IN /\ CurrentDecorators(i) = rest
            /\ ("decorators" \in DOMAIN ast[i]) <=> (rest # <<>>)

\* A class whose only annotation was matched and then rejected by validation:
\* one diagnostic, no artifact, and the node without a decorators attribute.
C11_Witness ==
  \E i \in 1..Len(source) :
    /\ Visited(i) /\ C11Case(source[i])
    /\ Len(source[i].decorators) = 1
    /\ Len(ByClass(errors, i)) = 1
    /\ ByClass(emitted, i) = <<>>
    /\ "decorators" \notin DOMAIN ast[i]

\* The first annotation of the class that is a call to Metadata has an empty
\* argument list.
C12Case(c) ==
  /\ MatchPositions(c.decorators) # {}
  /\ c.decorators[FirstMetadata(c)].expression.arguments = <<>>

\* C12: when the first annotation of a class that is a call to the name
\* Metadata has an empty argument list, the class is treated as having no
\* match: its node stays as parsed (nothing is removed from its annotation
\* list), no artifact is emitted and no diagnostic is reported for it, and
\* the visit of a class that has an identifier returns -- also when a later
\* Metadata annotation on the class carries an argument.
C12_EmptyFirstIsNoMatch ==
  \A i \in 1..Len(source) :
    (Reached(i) /\ C12Case(source[i]))
      => /\ ast[i] = ParseClass(source[i])
         /\ CurrentDecorators(i) = source[i].decorators
         /\ ByClass(emitted, i) = <<>>
         /\ ByClass(errors, i) = <<>>
         /\ HasId(source[i]) => ~FaultedAt(i)

\* A visited class with @Metadata() followed by a Metadata call whose record
\* would have been accepted: both still attached, nothing emitted.
C12_Witness ==
  \E i \in 1..Len(source) :
    /\ Visited(i) /\ C12Case(source[i])
    /\ source[i].decorators = <<Metadata(<<>>), Metadata(<<OkArg>>)>>
    /\ CurrentDecorators(i) = source[i].decorators
    /\ ByClass(emitted, i) = <<>>
    /\ pc = "done"

====
